---- MODULE Spec2Model ----
(***************************************************************************)
(* TrueCountTerminal.js: a blackjack decision-support panel.  The module   *)
(* models the engine functions (hand evaluation, outcome estimation, the   *)
(* one-ply action recommender, Kelly bet sizing) and the component state   *)
(* with its click handlers.                                                *)
(*                                                                         *)
(* Numbers.  The JavaScript works on doubles; the model computes the same  *)
(* expressions exactly, as integer numerators over a stated denominator:   *)
(*   - a probability record carries `den`; every field counts 1/den;       *)
(*   - expected values carry `evDen`;                                      *)
(*   - money (bankroll) counts half dollars, because a blackjack pays      *)
(*     currentBet * 1.5.                                                   *)
(***************************************************************************)
EXTENDS Integers, Sequences, FiniteSets, TLC

VARIABLES deck, playerCards, dealerUpCard, dealerDownCard, bankroll,
          currentBet, gamePhase, gameHistoryLen, call, ret

vars == <<deck, playerCards, dealerUpCard, dealerDownCard, bankroll,
          currentBet, gamePhase, gameHistoryLen, call, ret>>

uiVars == <<deck, playerCards, dealerUpCard, dealerDownCard, bankroll,
            currentBet, gamePhase, gameHistoryLen>>

----------------------------------------------------------------------------
(* Bounds of the model *)

\* longest player hand the component is driven to
MaxHand == 2
\* number of hand settlements the component is driven through
MaxSettled == 2
\* longest card sequence handed to evaluateHand on its own
MaxEvalLen == 3
\* longest player hand handed to the estimator and the recommender
MaxFnHand == 3
\* longest player hand handed to the estimator computed in doubles
MaxDoubleHand == 2
\* sample shoes hold 0..MaxLow or DECK_COUNT cards of each low and each high rank
MaxLow == 1

----------------------------------------------------------------------------
(* Cards and the shoe *)

CARD_VALUES == <<"A", "2", "3", "4", "5", "6", "7", "8", "9", "10", "J", "Q", "K">>

Ranks == {CARD_VALUES[i] : i \in 1..Len(CARD_VALUES)}

\* deck[value] = 24: 6 decks x 4 suits
DECK_COUNT == 24

initializeDeck == [value \in Ranks |-> DECK_COUNT]

\* Object.values / Object.entries of the deck object: integer-like keys in
\* ascending order first, then the other keys in insertion order
DeckKeys == <<"2", "3", "4", "5", "6", "7", "8", "9", "10", "A", "J", "Q", "K">>

Max(a, b) == IF a >= b THEN a ELSE b

Min(a, b) == IF a <= b THEN a ELSE b

\* parseInt('') is NaN.  The program only looks a NaN up in a table and
\* compares it with 10 (both fail), so a value outside every table stands for it.
NaN == -1

\* parseInt on the strings the program passes: a rank's digits, or ''
parseInt(s) ==
  CASE s = "2" -> 2 [] s = "3" -> 3 [] s = "4" -> 4 [] s = "5" -> 5
    [] s = "6" -> 6 [] s = "7" -> 7 [] s = "8" -> 8 [] s = "9" -> 9
    [] s = "10" -> 10
    [] OTHER -> NaN

getCardValue(card, isAce11) ==
  IF card = "A" THEN (IF isAce11 THEN 11 ELSE 1)
  ELSE IF card \in {"J", "Q", "K"} THEN 10
  ELSE parseInt(card)

----------------------------------------------------------------------------
(* Hand evaluator *)

\* the for loop of evaluateHand: aces counted 11
RECURSIVE SumCards(_, _, _)
SumCards(cards, i, acc) ==
  IF i > Len(cards) THEN acc
  ELSE SumCards(cards, i + 1,
         IF cards[i] = "A"
         THEN [total |-> acc.total + 11, aces |-> acc.aces + 1]
         ELSE [total |-> acc.total + getCardValue(cards[i], TRUE), aces |-> acc.aces])

\* a slip in the ace adjustment: `if` for `while`, one ace demoted at most
AdjustAcesOnce(acc) ==
  IF acc.total > 21 /\ acc.aces > 0
  THEN [total |-> acc.total - 10, aces |-> acc.aces - 1]
  ELSE acc

\* the while loop of evaluateHand
RECURSIVE AdjustAces(_)
AdjustAces(acc) ==
  IF acc.total > 21 /\ acc.aces > 0
  THEN AdjustAces([total |-> acc.total - 10, aces |-> acc.aces - 1])
  ELSE acc

evaluateHand(cards) ==
  LET a == AdjustAces(SumCards(cards, 1, [total |-> 0, aces |-> 0]))
  IN [total |-> a.total,
      isSoft |-> a.aces > 0 /\ a.total <= 21,
      isBlackjack |-> Len(cards) = 2 /\ a.total = 21,
      isBust |-> a.total > 21]

----------------------------------------------------------------------------
(* Outcome estimator *)

RECURSIVE SumValues(_, _)
SumValues(d, i) == IF i > Len(DeckKeys) THEN 0 ELSE d[DeckKeys[i]] + SumValues(d, i + 1)

\* Object.values(deck).reduce((sum, count) => sum + count, 0)
totalRemaining(d) == SumValues(d, 1)

\* dealerBustProbabilities[dealerCardValue] || 0.23, in hundredths
dealerBustProbabilities(v) ==
  CASE v = 2 -> 35 [] v = 3 -> 37 [] v = 4 -> 40 [] v = 5 -> 42 [] v = 6 -> 42
    [] v = 7 -> 26 [] v = 8 -> 24 [] v = 9 -> 23 [] v = 10 -> 23 [] v = 11 -> 17
    [] OTHER -> 23

\* the clamp left out
ClampBustMissing(x, den) == x

\* Math.max(0.1, Math.min(0.6, dealerBustProb)), in units of 1/den
ClampBust(x, den) == Max(den \div 10, Min((6 * den) \div 10, x))

\* a sign slip in the tiers: (1 + dealerBustProb) for (1 - dealerBustProb)
TierWinSignSlip(playerTotal, dealerBustProb, den) ==
  IF playerTotal >= 17 THEN dealerBustProb + ((den + dealerBustProb) * 4) \div 10
  ELSE IF playerTotal >= 12 THEN dealerBustProb + ((den + dealerBustProb) * 2) \div 10
  ELSE (dealerBustProb * 5) \div 10

\* the three tiers of the live, non-blackjack branch, in units of 1/den
TierWin(playerTotal, dealerBustProb, den) ==
  IF playerTotal >= 17 THEN dealerBustProb + ((den - dealerBustProb) * 4) \div 10
  ELSE IF playerTotal >= 12 THEN dealerBustProb + ((den - dealerBustProb) * 2) \div 10
  ELSE (dealerBustProb * 5) \div 10

calculateProbabilities(cards, upCard, d) ==
  LET total == totalRemaining(d) IN
  IF total = 0
  THEN [winProb |-> 0, lossProb |-> 1, pushProb |-> 0, dealerBustProb |-> 0, den |-> 1]
  ELSE
    LET den == 1000 * total
        playerHand == evaluateHand(cards)
        dealerCardValue == getCardValue(upCard, TRUE)
        low == d["2"] + d["3"] + d["4"] + d["5"] + d["6"]
        high == d["10"] + d["J"] + d["Q"] + d["K"] + d["A"]
        \* base + (lowCards - highCards) * 0.1, lowCards = low / total
        raw == 10 * dealerBustProbabilities(dealerCardValue) * total + 100 * (low - high)
        dealerBustProb == ClampBust(raw, den)
        dealerBlackjackProb ==
          IF upCard = "A" THEN 310 * total
          ELSE IF dealerCardValue = 10 THEN 80 * total ELSE 0
        winLive == TierWin(playerHand.total, dealerBustProb, den)
        pushLive == den \div 10
    IN IF playerHand.isBust
       THEN [winProb |-> 0, lossProb |-> den, pushProb |-> 0,
             dealerBustProb |-> dealerBustProb, den |-> den]
       ELSE IF playerHand.isBlackjack
       THEN [winProb |-> den - dealerBlackjackProb, lossProb |-> 0,
             pushProb |-> dealerBlackjackProb,
             dealerBustProb |-> dealerBustProb, den |-> den]
       ELSE [winProb |-> winLive, lossProb |-> den - winLive - pushLive,
             pushProb |-> pushLive,
             dealerBustProb |-> dealerBustProb, den |-> den]

----------------------------------------------------------------------------
(* Action recommender *)

\* probs.winProb * 1 + probs.lossProb * (-1) + probs.pushProb * 0, in 1/probs.den
StandEVOf(probs) == probs.winProb - probs.lossProb

\* the simulated draw done in place: playerCards.push(card); deck[card]--
SimulateDrawInPlace(cards, d, card, count) ==
  [newCards |-> Append(cards, card),
   newDeck |-> [d EXCEPT ![card] = count - 1],
   cards |-> Append(cards, card),
   deck |-> [d EXCEPT ![card] = count - 1]]

\* lines 122 and 129: the simulated draw works on copies ([...playerCards, card]
\* and { ...deck, [card]: count - 1 }).  `cards` and `deck` are the caller's
\* objects as the statement leaves them.
SimulateDraw(cards, d, card, count) ==
  [newCards |-> Append(cards, card),
   newDeck |-> [d EXCEPT ![card] = count - 1],
   cards |-> cards,
   deck |-> d]

\* One iteration of the loop over Object.entries(deck).  `entries` is the
\* snapshot Object.entries took; acc.cards / acc.deck are the caller's objects.
\* acc.sumX adds count * (EV after the draw), the EV in units of 1/xDen;
\* acc.sumCount adds count.
HitStep(acc, card, entries, upCard, xDen) ==
  LET count == entries[card] IN
  IF count > 0
  THEN LET sim == SimulateDraw(acc.cards, acc.deck, card, count)
           newHand == evaluateHand(sim.newCards)
           newProbs == calculateProbabilities(sim.newCards, upCard, sim.newDeck)
           newStandEV == StandEVOf(newProbs) * (xDen \div newProbs.den)
           x == IF newHand.isBust THEN -xDen ELSE newStandEV
       IN [sumX |-> acc.sumX + count * x,
           sumCount |-> acc.sumCount + count,
           cards |-> sim.cards,
           deck |-> sim.deck]
  ELSE acc

RECURSIVE HitLoop(_, _, _, _, _)
HitLoop(acc, i, entries, upCard, xDen) ==
  IF i > Len(DeckKeys) THEN acc
  ELSE HitLoop(HitStep(acc, DeckKeys[i], entries, upCard, xDen), i + 1, entries, upCard, xDen)

\* the comparator turned round: a.ev - b.ev, an ascending sort
CompareEVAscending(a, b) == IF a.ev > b.ev THEN 1 ELSE IF a.ev < b.ev THEN -1 ELSE 0

\* sign of (b.ev - a.ev), the comparator handed to sort
CompareEV(a, b) == IF b.ev > a.ev THEN 1 ELSE IF b.ev < a.ev THEN -1 ELSE 0

\* Array.prototype.sort is stable: an element moves in front of another only
\* when the comparator says so
RECURSIVE InsertSorted(_, _)
InsertSorted(sorted, x) ==
  IF sorted = <<>> THEN <<x>>
  ELSE IF CompareEV(Head(sorted), x) <= 0
       THEN <<Head(sorted)>> \o InsertSorted(Tail(sorted), x)
       ELSE <<x>> \o sorted

RECURSIVE SortActions(_)
SortActions(actions) ==
  IF actions = <<>> THEN <<>>
  ELSE InsertSorted(SortActions(SubSeq(actions, 1, Len(actions) - 1)), actions[Len(actions)])

\* Expected values are returned in units of 1/evDen,
\*   evDen = 10 * 1000 * max(total, 1) * max(total - 1, 1).
\* The loop's sum of cardProb * (x - standEV), cardProb = count / total, is
\* regrouped as (sum of count * x) / total - standEV * (sum of count) / total,
\* which is the same number and keeps every intermediate an integer.
getStrategyRecommendation(cards, upCard, d, canDouble, canSplit) ==
  LET playerHand == evaluateHand(cards)
      probs == calculateProbabilities(cards, upCard, d)
      total == totalRemaining(d)
      xDen == 1000 * Max(total - 1, 1)
      wDen == 1000 * Max(total, 1) * Max(total - 1, 1)
      standNum == StandEVOf(probs)
      standW == standNum * (wDen \div probs.den)
      start == [sumX |-> 0, sumCount |-> 0, cards |-> cards, deck |-> d]
      loop == IF playerHand.total < 21 THEN HitLoop(start, 1, d, upCard, xDen) ELSE start
      hitW == IF playerHand.total < 21 /\ total > 0
              THEN standW + loop.sumX
                     - ((standNum * loop.sumCount) \div total)
                         * Max(total - 1, 1)
              ELSE standW
      standEV == 10 * standW
      hitEV == 10 * hitW
      doubleEV == IF canDouble THEN hitEV * 2 ELSE "-Infinity"
      splitEV == IF canSplit THEN 9 * standW ELSE "-Infinity"
      actions == <<[action |-> "STAND", ev |-> standEV],
                   [action |-> "HIT", ev |-> hitEV]>>
                 \o (IF canDouble THEN <<[action |-> "DOUBLE", ev |-> doubleEV]>> ELSE <<>>)
                 \o (IF canSplit THEN <<[action |-> "SPLIT", ev |-> splitEV]>> ELSE <<>>)
      sorted == SortActions(actions)
  IN [recommendedAction |-> sorted[1].action,
      expectedValues |-> [a \in {sorted[i].action : i \in 1..Len(sorted)} |->
                            (CHOOSE e \in {sorted[i] : i \in 1..Len(sorted)} : e.action = a).ev],
      standEV |-> standEV,
      hitEV |-> hitEV,
      evDen |-> 10 * wDen,
      cards |-> loop.cards,
      deck |-> loop.deck]

----------------------------------------------------------------------------
(* Bet sizer *)

\* bankroll in half dollars; winProb, lossProb in units of 1/den; payout a
\* positive integer.  fractionalKelly * bankroll =
\*   (b * p - q) * bankroll2 / (b * den * 2 * 2)
calculateOptimalBetForNextRound(bankroll2, winProb, lossProb, den, payout) ==
  LET kellyNum == payout * winProb - lossProb
      kellyDen == payout * den
      betSize == Max(1, Min(500, (kellyNum * bankroll2) \div (4 * kellyDen)))
  IN [kellyFraction |-> [num |-> kellyNum, den |-> kellyDen],
      recommendedBet |-> betSize,
      \* (betSize / bankroll) * 100, the division left undone: den = 0 is the
      \* double Infinity, a negative den a negative percentage
      betPercentage |-> [num |-> 200 * betSize, den |-> bankroll2],
      outcome |-> "returned"]

----------------------------------------------------------------------------
(* Component state and handlers *)

\* money in half dollars
Dollars(n) == 2 * n

\* the state a handler closes over and sets
CardState(d, cards, up, down) ==
  [deck |-> d, playerCards |-> cards, dealerUpCard |-> up, dealerDownCard |-> down,
   outcome |-> "returned"]

\* addCard without its first line
addCardUnguarded(st, card, target) ==
  LET newDeck == [st.deck EXCEPT ![card] = st.deck[card] - 1] IN
  IF target = "player"
  THEN [st EXCEPT !.deck = newDeck, !.playerCards = Append(st.playerCards, card)]
  ELSE IF target = "dealer-up"
  THEN [st EXCEPT !.deck = newDeck, !.dealerUpCard = card]
  ELSE [st EXCEPT !.deck = newDeck, !.dealerDownCard = card]

addCard(st, card, target) ==
  IF st.deck[card] <= 0 THEN st
  ELSE LET newDeck == [st.deck EXCEPT ![card] = st.deck[card] - 1] IN
       IF target = "player"
       THEN [st EXCEPT !.deck = newDeck, !.playerCards = Append(st.playerCards, card)]
       ELSE IF target = "dealer-up"
       THEN [st EXCEPT !.deck = newDeck, !.dealerUpCard = card]
       ELSE IF target = "dealer-down"
       THEN [st EXCEPT !.deck = newDeck, !.dealerDownCard = card]
       ELSE [st EXCEPT !.deck = newDeck]

\* removeCard that credits the shoe and leaves the card on show
removeCardKeepsCard(st, card, target) ==
  [st EXCEPT !.deck = [st.deck EXCEPT ![card] = st.deck[card] + 1]]

\* playerCards.lastIndexOf(card), 1-based; 0 when absent
RECURSIVE LastIndexFrom(_, _, _)
LastIndexFrom(cards, card, i) ==
  IF i = 0 THEN 0
  ELSE IF cards[i] = card THEN i ELSE LastIndexFrom(cards, card, i - 1)

lastIndexOf(cards, card) == LastIndexFrom(cards, card, Len(cards))

\* newPlayerCards.splice(cardIndex, 1)
Splice1(cards, i) == SubSeq(cards, 1, i - 1) \o SubSeq(cards, i + 1, Len(cards))

removeCard(st, card, target) ==
  LET newDeck == [st.deck EXCEPT ![card] = st.deck[card] + 1]
      cardIndex == lastIndexOf(st.playerCards, card)
  IN IF target = "player"
     THEN IF cardIndex > 0
          THEN [st EXCEPT !.deck = newDeck, !.playerCards = Splice1(st.playerCards, cardIndex)]
          ELSE [st EXCEPT !.deck = newDeck]
     ELSE IF target = "dealer-up"
     THEN [st EXCEPT !.deck = newDeck, !.dealerUpCard = ""]
     ELSE IF target = "dealer-down"
     THEN [st EXCEPT !.deck = newDeck, !.dealerDownCard = ""]
     ELSE [st EXCEPT !.deck = newDeck]

\* what resetGame sets; bankroll, currentBet and gameHistory are not touched
resetGame ==
  [deck |-> initializeDeck, playerCards |-> <<>>, dealerUpCard |-> "",
   dealerDownCard |-> "", gamePhase |-> "betting"]

\* the switch of finishHand, in half dollars
Payout(result, bet) ==
  CASE result = "win" -> Dollars(bet)
    [] result = "blackjack" -> 3 * bet
    [] result = "loss" -> -Dollars(bet)
    [] result = "push" -> 0
    [] OTHER -> 0

\* setBankroll(bankroll + payout)
finishHand(bank, bet, result) == bank + Payout(result, bet)

\* useMemo currentAnalysis: null until a player card and the dealer up card are
\* entered.  The probabilities alone; the strategy is StrategyOf.
HasAnalysis(cards, up) == ~(Len(cards) = 0 \/ up = "")

ProbsOf(cards, up, d) == calculateProbabilities(cards, up, d)

StrategyOf(cards, up, d) ==
  getStrategyRecommendation(cards, up, d, Len(cards) = 2,
                            Len(cards) = 2 /\ cards[1] = cards[2])

\* useMemo nextRoundBetting, payout left to its default of 1
NextRoundBettingOf(bank, cards, up, d) ==
  LET probs == ProbsOf(cards, up, d)
  IN calculateOptimalBetForNextRound(bank, probs.winProb, probs.lossProb, probs.den, 1)

currentAnalysisPresent == HasAnalysis(playerCards, dealerUpCard)

nextRoundBetting == NextRoundBettingOf(bankroll, playerCards, dealerUpCard, deck)

----------------------------------------------------------------------------
(* The component driven through its controls *)

\* the ranks whose buttons the model presses, and the slider positions it sets
ClickRanks == {"A", "6", "K"}

BetChoices == {1, 500}

Results == {"win", "loss", "blackjack", "push"}

NoCall == [op |-> "none"]

NoRet == [status |-> "none"]

Here == CardState(deck, playerCards, dealerUpCard, dealerDownCard)

SetCards(st) ==
  /\ deck' = st.deck
  /\ playerCards' = st.playerCards
  /\ dealerUpCard' = st.dealerUpCard
  /\ dealerDownCard' = st.dealerDownCard

Init ==
  /\ deck = initializeDeck
  /\ playerCards = <<>>
  /\ dealerUpCard = ""
  /\ dealerDownCard = ""
  /\ bankroll = Dollars(1000)
  /\ currentBet = 10
  /\ gamePhase = "betting"
  /\ gameHistoryLen = 0
  /\ call = NoCall
  /\ ret = NoRet

\* player card button: disabled={deck[card] === 0}
AddCardPlayer(card) ==
  /\ deck[card] # 0
  /\ Len(playerCards) < MaxHand
  /\ SetCards(addCard(Here, card, "player"))
  /\ UNCHANGED <<bankroll, currentBet, gamePhase, gameHistoryLen, call, ret>>

\* a dealer up card button that stays enabled while the slot is taken
AddCardDealerUpSlotTaken(card) ==
  /\ deck[card] # 0
  /\ SetCards(addCard(Here, card, "dealer-up"))
  /\ UNCHANGED <<bankroll, currentBet, gamePhase, gameHistoryLen, call, ret>>

\* dealer up card button: disabled={deck[card] === 0 || dealerUpCard !== ''}
AddCardDealerUp(card) ==
  /\ ~(deck[card] = 0 \/ dealerUpCard # "")
  /\ SetCards(addCard(Here, card, "dealer-up"))
  /\ UNCHANGED <<bankroll, currentBet, gamePhase, gameHistoryLen, call, ret>>

\* click on the index-th card shown in the player hand
RemoveCardPlayer(index) ==
  /\ index \in 1..Len(playerCards)
  /\ SetCards(removeCard(Here, playerCards[index], "player"))
  /\ UNCHANGED <<bankroll, currentBet, gamePhase, gameHistoryLen, call, ret>>

\* click on the dealer up card shown
RemoveCardDealerUp ==
  /\ dealerUpCard # ""
  /\ SetCards(removeCard(Here, dealerUpCard, "dealer-up"))
  /\ UNCHANGED <<bankroll, currentBet, gamePhase, gameHistoryLen, call, ret>>

\* a [NEW_HAND] that also puts the bankroll back to its starting value
ResetGameRestoresBankroll ==
  /\ deck' = resetGame.deck
  /\ playerCards' = resetGame.playerCards
  /\ dealerUpCard' = resetGame.dealerUpCard
  /\ dealerDownCard' = resetGame.dealerDownCard
  /\ gamePhase' = resetGame.gamePhase
  /\ bankroll' = Dollars(1000)
  /\ UNCHANGED <<currentBet, gameHistoryLen, call, ret>>

\* [NEW_HAND]
ResetGame ==
  /\ deck' = resetGame.deck
  /\ playerCards' = resetGame.playerCards
  /\ dealerUpCard' = resetGame.dealerUpCard
  /\ dealerDownCard' = resetGame.dealerDownCard
  /\ gamePhase' = resetGame.gamePhase
  /\ UNCHANGED <<bankroll, currentBet, gameHistoryLen, call, ret>>

\* [RESET_CARDS]: setGamePhase('betting') and nothing else
SetPhaseBetting ==
  /\ gamePhase' = "betting"
  /\ UNCHANGED <<deck, playerCards, dealerUpCard, dealerDownCard, bankroll,
                 currentBet, gameHistoryLen, call, ret>>

\* the bet slider, min 1 max 500
SetCurrentBet(bet) ==
  /\ currentBet' = bet
  /\ UNCHANGED <<deck, playerCards, dealerUpCard, dealerDownCard, bankroll,
                 gamePhase, gameHistoryLen, call, ret>>

\* [WIN] [LOSS] [BJ] [PUSH], rendered only while currentAnalysis is not null
FinishHand(result) ==
  /\ currentAnalysisPresent
  /\ gameHistoryLen < MaxSettled
  /\ bankroll' = finishHand(bankroll, currentBet, result)
  /\ gameHistoryLen' = gameHistoryLen + 1
  /\ gamePhase' = "finished"
  /\ UNCHANGED <<deck, playerCards, dealerUpCard, dealerDownCard, currentBet, call, ret>>

Next ==
  \/ \E card \in ClickRanks : AddCardPlayer(card)
  \/ \E card \in ClickRanks : AddCardDealerUp(card)
  \/ \E index \in 1..MaxHand + 1 : RemoveCardPlayer(index)
  \/ RemoveCardDealerUp
  \/ ResetGame
  \/ SetPhaseBetting
  \/ \E bet \in BetChoices : SetCurrentBet(bet)
  \/ \E result \in Results : FinishHand(result)

Spec == Init /\ [][Next]_vars

----------------------------------------------------------------------------
(* The engine functions and addCard called on sample inputs *)

\* all sequences over S of length 0..n
SeqsUpTo(S, n) == UNION {[1..k -> S] : k \in 0..n}

\* the ranks of the sample player hands: ace, a small card, a ten
FnRanks == {"A", "6", "K"}

LowRanks == {"2", "3", "4", "5", "6"}

HighRanks == {"10", "J", "Q", "K", "A"}

\* a shoe with l of each low rank, m of each of 7..9, h of each high rank
GroupShoe(l, m, h) ==
  [r \in Ranks |-> IF r \in LowRanks THEN l ELSE IF r \in HighRanks THEN h ELSE m]

\* a shoe holding one card
SingleShoe(card) == [r \in Ranks |-> IF r = card THEN 1 ELSE 0]

Levels == (0..MaxLow) \cup {DECK_COUNT}

ShoeSamples ==
  {GroupShoe(l, m, h) : l \in Levels, m \in {0, DECK_COUNT}, h \in Levels}
    \cup {SingleShoe(card) : card \in FnRanks}

CoarseShoes ==
  {GroupShoe(l, m, h) : l \in {0, DECK_COUNT}, m \in {0, DECK_COUNT}, h \in {0, DECK_COUNT}}
    \cup {SingleShoe(card) : card \in FnRanks}

DealerSamples == Ranks \cup {""}

CoarseDealers == {"", "A", "6", "K"}

\* bankrolls in half dollars, probabilities in hundredths
BankrollSamples == {-2000, -3, 0, 1, 3, 20, 2000, 2001, 10000, 1000000}

ProbSamples == {0, 10, 25, 50, 75, 90, 100}

EvaluateCalls ==
  {[op |-> "evaluateHand", cards |-> c] : c \in SeqsUpTo(Ranks, MaxEvalLen)}

EstimateCalls ==
  {[op |-> "calculateProbabilities", playerCards |-> c, dealerUpCard |-> u, deck |-> d] :
     c \in SeqsUpTo(FnRanks, MaxFnHand), u \in DealerSamples, d \in ShoeSamples}

RecommendCalls ==
  {[op |-> "getStrategyRecommendation", playerCards |-> c, dealerUpCard |-> u, deck |-> d,
    canDouble |-> cd, canSplit |-> cs] :
     c \in SeqsUpTo(FnRanks, MaxFnHand), u \in CoarseDealers, d \in CoarseShoes,
     cd \in BOOLEAN, cs \in BOOLEAN}

BetCalls ==
  {[op |-> "calculateOptimalBetForNextRound", bankroll |-> b, winProb |-> p, lossProb |-> q,
    den |-> 100, payout |-> y] :
     b \in BankrollSamples, p \in ProbSamples, q \in ProbSamples, y \in {1, 2}}

AddCardCalls ==
  {[op |-> "addCard", card |-> c, target |-> t,
    state |-> CardState(d, h, u, "")] :
     c \in FnRanks, t \in {"player", "dealer-up", "dealer-down"},
     d \in CoarseShoes, h \in SeqsUpTo(FnRanks, 1), u \in {"", "A"}}

Pending == [status |-> "pending"]

Returned(v) == [status |-> "returned", value |-> v]

InitFn ==
  /\ deck = initializeDeck
  /\ playerCards = <<>>
  /\ dealerUpCard = ""
  /\ dealerDownCard = ""
  /\ bankroll = Dollars(1000)
  /\ currentBet = 10
  /\ gamePhase = "betting"
  /\ gameHistoryLen = 0
  /\ call \in EvaluateCalls \cup EstimateCalls \cup RecommendCalls
                \cup BetCalls \cup AddCardCalls
  /\ ret = Pending

Evaluate ==
  /\ call.op = "evaluateHand" /\ ret = Pending
  /\ ret' = Returned(evaluateHand(call.cards))
  /\ UNCHANGED <<uiVars, call>>

\* the estimator only reads its arguments; they are handed back as it leaves them
Estimate ==
  /\ call.op = "calculateProbabilities" /\ ret = Pending
  /\ ret' = Returned([probs |-> calculateProbabilities(call.playerCards, call.dealerUpCard, call.deck),
                      cards |-> call.playerCards, deck |-> call.deck])
  /\ UNCHANGED <<uiVars, call>>

Recommend ==
  /\ call.op = "getStrategyRecommendation" /\ ret = Pending
  /\ ret' = Returned(getStrategyRecommendation(call.playerCards, call.dealerUpCard, call.deck,
                                               call.canDouble, call.canSplit))
  /\ UNCHANGED <<uiVars, call>>

SizeBet ==
  /\ call.op = "calculateOptimalBetForNextRound" /\ ret = Pending
  /\ ret' = Returned(calculateOptimalBetForNextRound(call.bankroll, call.winProb, call.lossProb,
                                                     call.den, call.payout))
  /\ UNCHANGED <<uiVars, call>>

CallAddCard ==
  /\ call.op = "addCard" /\ ret = Pending
  /\ ret' = Returned(addCard(call.state, call.card, call.target))
  /\ UNCHANGED <<uiVars, call>>

NextFn == Evaluate \/ Estimate \/ Recommend \/ SizeBet \/ CallAddCard

SpecFn == InitFn /\ [][NextFn]_vars

----------------------------------------------------------------------------
(* Properties of the shoe and the bankroll, checked under Spec *)

C3_InvalidBankrollRejected ==
  currentAnalysisPresent =>
    /\ bankroll <= 0 => nextRoundBetting.outcome = "InvalidBankrollError"
    /\ bankroll > 0 => nextRoundBetting.outcome = "returned"

\* C8 as stated: the bankroll is always a whole number of dollars.
C8_BankrollInteger == bankroll % 2 = 0

\* C8, amended: the bankroll is changed only by a hand settlement, which adds
\* the bet (win), takes the bet (loss) or adds one and a half times the bet
\* (blackjack); so it is always a whole number of half dollars, and no draw,
\* restore, reset, bet change or phase change touches it.
C8_OnlySettlementMovesBankroll ==
  [][bankroll' # bankroll =>
       /\ \E result \in Results : FinishHand(result)
       /\ bankroll' - bankroll \in {Dollars(currentBet), -Dollars(currentBet), 3 * currentBet}]_vars

\* a blackjack settled at an odd bet left the bankroll at a half dollar
C8_Witness == bankroll % 2 = 1 /\ gameHistoryLen >= 1

\* number of cards of rank r among the player's cards
RECURSIVE CountIn(_, _)
CountIn(cards, r) ==
  IF cards = <<>> THEN 0
  ELSE (IF Head(cards) = r THEN 1 ELSE 0) + CountIn(Tail(cards), r)

\* C11: in every state the controls reach, for every rank the shoe count plus
\* the cards of that rank in the player hand plus one if the dealer up card
\* is of that rank equals 24.
C11_CardConservation ==
  \A r \in Ranks :
    deck[r] + CountIn(playerCards, r) + (IF dealerUpCard = r THEN 1 ELSE 0) = 24

\* a pair and an up card of one rank are out, after a hand was settled
C11_Witness ==
  /\ playerCards = <<"K", "K">>
  /\ dealerUpCard = "K"
  /\ deck["K"] = 21
  /\ gameHistoryLen >= 1

----------------------------------------------------------------------------
(* Properties of the engine functions and of addCard, checked under SpecFn *)

Done(op) == call.op = op /\ ret.status = "returned"

DepletedDraw == Done("addCard") /\ call.state.deck[call.card] = 0

\* C2 as stated: a draw of a rank with no card left fails with
\* DepletedRankError and leaves shoe, player hand and dealer slots as they were.
C2_DepletedRankError ==
  DepletedDraw =>
    /\ ret.value.outcome = "DepletedRankError"
    /\ ret.value.deck = call.state.deck
    /\ ret.value.playerCards = call.state.playerCards
    /\ ret.value.dealerUpCard = call.state.dealerUpCard
    /\ ret.value.dealerDownCard = call.state.dealerDownCard

\* C2, amended: a draw of a rank with no card left returns normally, raising
\* no error, and leaves shoe, player hand and dealer slots as they were.
C2_DepletedDrawIgnored ==
  DepletedDraw =>
    /\ ret.value.outcome = "returned"
    /\ ret.value.deck = call.state.deck
    /\ ret.value.playerCards = call.state.playerCards
    /\ ret.value.dealerUpCard = call.state.dealerUpCard
    /\ ret.value.dealerDownCard = call.state.dealerDownCard

\* a depleted rank was asked for while other ranks were still in the shoe
C2_Witness == DepletedDraw /\ totalRemaining(call.state.deck) > 0

BustInRange(probs) ==
  /\ 10 * probs.dealerBustProb >= probs.den
  /\ 10 * probs.dealerBustProb <= 6 * probs.den

\* C4 as stated: for every hand, up card and shoe, the empty shoe included,
\* dealerBustProb lies in [0.10, 0.60].
C4_BustProbAlwaysClamped ==
  Done("calculateProbabilities") => BustInRange(ret.value.probs)

\* C4, amended: for every hand, up card and shoe with at least one card left,
\* dealerBustProb lies in [0.10, 0.60]; for the empty shoe it is 0.
C4_BustProbClampedUnlessEmpty ==
  Done("calculateProbabilities") =>
    IF totalRemaining(call.deck) > 0
    THEN BustInRange(ret.value.probs)
    ELSE ret.value.probs.dealerBustProb = 0

\* the lower clamp bound was hit: an ace up against a shoe of high cards only
C4_Witness ==
  /\ Done("calculateProbabilities")
  /\ totalRemaining(call.deck) > 0
  /\ call.dealerUpCard = "A"
  /\ 10 * ret.value.probs.dealerBustProb = ret.value.probs.den

InUnit(x, den) == 0 <= x /\ x <= den

\* C5: each of winProb, lossProb, pushProb and dealerBustProb returned by the
\* estimator lies in [0,1]; in particular lossProb = 1 - winProb - 0.1 of the
\* live branch is never negative.
C5_ProbabilitiesInUnitInterval ==
  Done("calculateProbabilities") =>
    LET probs == ret.value.probs
    IN /\ InUnit(probs.winProb, probs.den)
       /\ InUnit(probs.lossProb, probs.den)
       /\ InUnit(probs.pushProb, probs.den)
       /\ InUnit(probs.dealerBustProb, probs.den)

\* the live branch at its highest tier with the dealer most likely to bust
C5_Witness ==
  /\ Done("calculateProbabilities")
  /\ call.playerCards = <<"K", "K">>
  /\ 100 * ret.value.probs.dealerBustProb > 50 * ret.value.probs.den
  /\ ret.value.probs.lossProb > 0

\* C6: whenever the bet sizer returns, recommendedBet is an integer in
\* 1..500, and a zero or negative edge yields exactly 1.
C6_BetClamped ==
  Done("calculateOptimalBetForNextRound") =>
    /\ ret.value.recommendedBet \in 1..500
    /\ ret.value.kellyFraction.num <= 0 => ret.value.recommendedBet = 1

Priority(action) ==
  CASE action = "STAND" -> 1 [] action = "HIT" -> 2 [] action = "DOUBLE" -> 3 [] OTHER -> 4

\* C7: recommendedAction is a key of expectedValues that holds the maximum
\* value, and among the keys that hold it the earliest of STAND, HIT,
\* DOUBLE, SPLIT; DOUBLE and SPLIT are keys exactly when allowed.
C7_RecommendsFirstMaximum ==
  Done("getStrategyRecommendation") =>
    LET ev == ret.value.expectedValues
        best == ret.value.recommendedAction
    IN /\ DOMAIN ev = {"STAND", "HIT"}
                        \cup (IF call.canDouble THEN {"DOUBLE"} ELSE {})
                        \cup (IF call.canSplit THEN {"SPLIT"} ELSE {})
       /\ best \in DOMAIN ev
       /\ \A a \in DOMAIN ev : ev[a] <= ev[best]
       /\ \A a \in DOMAIN ev : ev[a] = ev[best] => Priority(best) <= Priority(a)

\* a total of 21 with neither double nor split: HIT ties with STAND, STAND wins
C7_Witness ==
  /\ Done("getStrategyRecommendation")
  /\ evaluateHand(call.playerCards).total = 21
  /\ ~call.canDouble /\ ~call.canSplit
  /\ ret.value.expectedValues["HIT"] = ret.value.expectedValues["STAND"]
  /\ ret.value.recommendedAction = "STAND"

\* C9: when the estimator or the recommender returns, the shoe and the
\* player's cards handed in are as they were before the call.
C9_ArgumentsUntouched ==
  (Done("calculateProbabilities") \/ Done("getStrategyRecommendation")) =>
    /\ ret.value.cards = call.playerCards
    /\ ret.value.deck = call.deck

\* the hit search ran over a shoe with cards left and moved hitEV off standEV
C9_Witness ==
  /\ Done("getStrategyRecommendation")
  /\ totalRemaining(call.deck) > 1
  /\ ret.value.hitEV # ret.value.standEV

\* the hand's total with every ace counted 1
RECURSIVE HardTotal(_)
HardTotal(cards) ==
  IF cards = <<>> THEN 0 ELSE getCardValue(Head(cards), FALSE) + HardTotal(Tail(cards))

\* C10: evaluate returns the ace-adjusted total (the aces-as-1 total plus 10
\* when there is an ace and that does not exceed 21), isSoft exactly when an
\* ace still counts 11, isBlackjack exactly for two cards totalling 21,
\* isBust exactly for a total over 21; with the five stated examples.
C10_EvaluateHand ==
  Done("evaluateHand") =>
    LET cards == call.cards
        v == ret.value
        hard == HardTotal(cards)
        hasAce == \E i \in 1..Len(cards) : cards[i] = "A"
        acesAt11 == (v.total - hard) \div 10
    IN /\ v.total = IF hasAce /\ hard + 10 <= 21 THEN hard + 10 ELSE hard
       /\ v.isSoft = (acesAt11 >= 1)
       /\ v.isBlackjack = (Len(cards) = 2 /\ v.total = 21)
       /\ v.isBust = (v.total > 21)
       /\ cards = <<"A", "A">> =>
            v = [total |-> 12, isSoft |-> TRUE, isBlackjack |-> FALSE, isBust |-> FALSE]
       /\ cards = <<"10", "K">> => v.total = 20 /\ ~v.isBlackjack
       /\ cards = <<"A", "K">> => v.total = 21 /\ v.isBlackjack
       /\ cards = <<"K", "Q", "5">> => v.total = 25 /\ v.isBust /\ ~v.isSoft
       /\ cards = <<>> => v.total = 0 /\ ~v.isBust /\ ~v.isBlackjack

\* two aces and a ten: both aces demoted
C10_Witness ==
  /\ Done("evaluateHand")
  /\ call.cards = <<"A", "A", "K">>
  /\ ret.value.total = 12
  /\ ~ret.value.isSoft

----------------------------------------------------------------------------
(* Double arithmetic *)
(* The estimator's outputs as the JavaScript computes them: IEEE-754       *)
(* binary64 with round-to-nearest-even.  A double of magnitude between     *)
(* 2^-31 and 2^53, or zero, is held exactly as a sign and a natural        *)
(* number of units of 2^-FracBits; naturals are little-endian sequences of *)
(* limbs below LimbBase.  Every value the estimator forms is in range.     *)

\* significand length of a double
MantissaBits == 53

\* bits in a limb
LimbBits == 14

LimbBase == 2 ^ LimbBits

\* limbs behind the binary point
FracLimbs == 6

Limb(a, i) == IF i <= Len(a) THEN a[i] ELSE 0

RECURSIVE Trim(_)
Trim(a) ==
  IF a = <<>> THEN <<>>
  ELSE IF a[Len(a)] = 0 THEN Trim(SubSeq(a, 1, Len(a) - 1)) ELSE a

Zeros(n) == [i \in 1..n |-> 0]

RECURSIVE AddLimbs(_, _, _, _)
AddLimbs(a, b, i, carry) ==
  IF i > Max(Len(a), Len(b)) THEN (IF carry = 0 THEN <<>> ELSE <<carry>>)
  ELSE LET sum == Limb(a, i) + Limb(b, i) + carry
       IN <<sum % LimbBase>> \o AddLimbs(a, b, i + 1, sum \div LimbBase)

BigAdd(a, b) == AddLimbs(a, b, 1, 0)

\* a - b for a >= b
RECURSIVE SubLimbs(_, _, _, _)
SubLimbs(a, b, i, borrow) ==
  IF i > Len(a) THEN <<>>
  ELSE LET diff == Limb(a, i) - Limb(b, i) - borrow
       IN <<diff % LimbBase>> \o SubLimbs(a, b, i + 1, IF diff < 0 THEN 1 ELSE 0)

BigSub(a, b) == Trim(SubLimbs(a, b, 1, 0))

RECURSIVE CmpFrom(_, _, _)
CmpFrom(a, b, i) ==
  IF i = 0 THEN 0
  ELSE IF a[i] > b[i] THEN 1 ELSE IF a[i] < b[i] THEN -1 ELSE CmpFrom(a, b, i - 1)

BigCmp(a, b) ==
  IF Len(a) > Len(b) THEN 1 ELSE IF Len(a) < Len(b) THEN -1 ELSE CmpFrom(a, b, Len(a))

\* a * k for 0 <= k < LimbBase
RECURSIVE MulSmallFrom(_, _, _, _)
MulSmallFrom(a, k, i, carry) ==
  IF i > Len(a) THEN (IF carry = 0 THEN <<>> ELSE <<carry>>)
  ELSE LET prod == a[i] * k + carry
       IN <<prod % LimbBase>> \o MulSmallFrom(a, k, i + 1, prod \div LimbBase)

MulSmall(a, k) == Trim(MulSmallFrom(a, k, 1, 0))

ShiftLimbs(a, n) == IF a = <<>> THEN <<>> ELSE Zeros(n) \o a

RECURSIVE MulFrom(_, _, _)
MulFrom(a, b, j) ==
  IF j > Len(b) THEN <<>>
  ELSE BigAdd(ShiftLimbs(MulSmall(a, b[j]), j - 1), MulFrom(a, b, j + 1))

BigMul(a, b) == Trim(MulFrom(a, b, 1))

\* floor(a / d) and whether a remainder was left, for 0 < d < LimbBase
RECURSIVE DivSmallFrom(_, _, _, _)
DivSmallFrom(a, d, i, rem) ==
  IF i = 0 THEN [quot |-> <<>>, rem |-> rem]
  ELSE LET cur == rem * LimbBase + a[i]
           rest == DivSmallFrom(a, d, i - 1, cur % d)
       IN [quot |-> rest.quot \o <<cur \div d>>, rem |-> rest.rem]

DivSmall(a, d) ==
  LET r == DivSmallFrom(a, d, Len(a), 0) IN [quot |-> Trim(r.quot), rem |-> r.rem]

RECURSIVE SmallBitLen(_)
SmallBitLen(n) == IF n = 0 THEN 0 ELSE 1 + SmallBitLen(n \div 2)

BitLen(a) == IF a = <<>> THEN 0 ELSE (Len(a) - 1) * LimbBits + SmallBitLen(a[Len(a)])

ShiftLeftBits(a, k) == ShiftLimbs(MulSmall(a, 2 ^ (k % LimbBits)), k \div LimbBits)

\* floor(a / 2^k)
ShiftRightBits(a, k) ==
  LET drop == k \div LimbBits
      r == k % LimbBits
      rest == IF drop >= Len(a) THEN <<>> ELSE SubSeq(a, drop + 1, Len(a))
  IN Trim([i \in 1..Len(rest) |->
             rest[i] \div (2 ^ r) + (Limb(rest, i + 1) % (2 ^ r)) * (2 ^ (LimbBits - r))])

\* n rounded to MantissaBits significant bits, ties to even; `sticky` says
\* that the exact value lies a little above n
RoundSig(n, sticky) ==
  LET len == BitLen(n) IN
  IF len <= MantissaBits THEN n
  ELSE LET q == len - MantissaBits
           hi == ShiftRightBits(n, q)
           lo == BigSub(n, ShiftLeftBits(hi, q))
           c == BigCmp(lo, ShiftLeftBits(<<1>>, q - 1))
           up == c > 0 \/ (c = 0 /\ (sticky \/ hi[1] % 2 = 1))
       IN ShiftLeftBits(IF up THEN BigAdd(hi, <<1>>) ELSE hi, q)

\* the double of a small natural
FInt(n) == [neg |-> FALSE, mag |-> ShiftLimbs(Trim(<<n>>), FracLimbs)]

\* the double nearest a / b for naturals a and b > 0 below LimbBase: the
\* division low / totalRemaining, and the decimal literals (0.35 is 35 / 100)
FRatio(a, b) ==
  LET d == DivSmall(ShiftLimbs(Trim(<<a>>), FracLimbs + 1), b)
      r == RoundSig(d.quot, d.rem # 0)
  IN [neg |-> FALSE, mag |-> IF r = <<>> THEN <<>> ELSE SubSeq(r, 2, Len(r))]

FNeg(x) == [neg |-> ~x.neg /\ x.mag # <<>>, mag |-> x.mag]

FAdd(x, y) ==
  IF x.neg = y.neg
  THEN [neg |-> x.neg, mag |-> RoundSig(BigAdd(x.mag, y.mag), FALSE)]
  ELSE LET c == BigCmp(x.mag, y.mag)
       IN IF c = 0 THEN [neg |-> FALSE, mag |-> <<>>]
          ELSE IF c > 0 THEN [neg |-> x.neg, mag |-> RoundSig(BigSub(x.mag, y.mag), FALSE)]
          ELSE [neg |-> y.neg, mag |-> RoundSig(BigSub(y.mag, x.mag), FALSE)]

FSub(x, y) == FAdd(x, FNeg(y))

FMul(x, y) ==
  LET r == RoundSig(BigMul(x.mag, y.mag), FALSE)
  IN IF r = <<>> THEN [neg |-> FALSE, mag |-> <<>>]
     ELSE [neg |-> x.neg # y.neg, mag |-> SubSeq(r, FracLimbs + 1, Len(r))]

\* x < y
FLess(x, y) ==
  IF x.neg /\ ~y.neg THEN TRUE
  ELSE IF ~x.neg /\ y.neg THEN FALSE
  ELSE IF x.neg THEN BigCmp(x.mag, y.mag) > 0
  ELSE BigCmp(x.mag, y.mag) < 0

FMax(x, y) == IF FLess(x, y) THEN y ELSE x

FMin(x, y) == IF FLess(y, x) THEN y ELSE x

----------------------------------------------------------------------------
(* The outcome estimator in doubles *)

\* the decimal literal h / 100
Hundredths(h) == FRatio(h, 100)

\* dealerBustProb += (lowCards - highCards) * 0.1, then the clamp
BustProbDouble(base, low, high, total) ==
  LET lowCards == FRatio(low, total)
      highCards == FRatio(high, total)
      adjusted == FAdd(Hundredths(base), FMul(FSub(lowCards, highCards), Hundredths(10)))
  IN FMax(Hundredths(10), FMin(Hundredths(60), adjusted))

TierWinDouble(playerTotal, dealerBustProb) ==
  IF playerTotal >= 17
  THEN FAdd(dealerBustProb, FMul(FSub(FInt(1), dealerBustProb), Hundredths(40)))
  ELSE IF playerTotal >= 12
  THEN FAdd(dealerBustProb, FMul(FSub(FInt(1), dealerBustProb), Hundredths(20)))
  ELSE FMul(dealerBustProb, Hundredths(50))

\* lossProb = 1 - winProb with the push forgotten
LossLiveDoubleNoPush(winProb, pushProb) == FSub(FInt(1), winProb)

\* lossProb = 1 - winProb - pushProb
LossLiveDouble(winProb, pushProb) == FSub(FSub(FInt(1), winProb), pushProb)

calculateProbabilitiesDouble(cards, upCard, d) ==
  LET total == totalRemaining(d) IN
  IF total = 0
  THEN [winProb |-> FInt(0), lossProb |-> FInt(1), pushProb |-> FInt(0),
        dealerBustProb |-> FInt(0)]
  ELSE
    LET playerHand == evaluateHand(cards)
        dealerCardValue == getCardValue(upCard, TRUE)
        low == d["2"] + d["3"] + d["4"] + d["5"] + d["6"]
        high == d["10"] + d["J"] + d["Q"] + d["K"] + d["A"]
        dealerBustProb ==
          BustProbDouble(dealerBustProbabilities(dealerCardValue), low, high, total)
        dealerBlackjackProb ==
          IF upCard = "A" THEN Hundredths(31)
          ELSE IF dealerCardValue = 10 THEN Hundredths(8) ELSE FInt(0)
        winLive == TierWinDouble(playerHand.total, dealerBustProb)
        pushLive == Hundredths(10)
    IN IF playerHand.isBust
       THEN [winProb |-> FInt(0), lossProb |-> FInt(1), pushProb |-> FInt(0),
             dealerBustProb |-> dealerBustProb]
       ELSE IF playerHand.isBlackjack
       THEN [winProb |-> FSub(FInt(1), dealerBlackjackProb), lossProb |-> FInt(0),
             pushProb |-> dealerBlackjackProb, dealerBustProb |-> dealerBustProb]
       ELSE [winProb |-> winLive, lossProb |-> LossLiveDouble(winLive, pushLive),
             pushProb |-> pushLive, dealerBustProb |-> dealerBustProb]

\* the shoe after the given player cards and up card were entered from a full shoe
RECURSIVE Debit(_, _)
Debit(d, cards) ==
  IF cards = <<>> THEN d
  ELSE Debit(addCard(CardState(d, <<>>, "", ""), Head(cards), "player").deck, Tail(cards))

Dealt(cards, upCard) ==
  Debit(initializeDeck, IF upCard = "" THEN cards ELSE Append(cards, upCard))

DoubleCalls ==
  {[op |-> "calculateProbabilities", playerCards |-> c, dealerUpCard |-> u, deck |-> d] :
     c \in SeqsUpTo(FnRanks, MaxDoubleHand), u \in DealerSamples, d \in CoarseShoes}
  \cup
  {[op |-> "calculateProbabilities", playerCards |-> c, dealerUpCard |-> u,
    deck |-> Dealt(c, u)] :
     c \in SeqsUpTo(FnRanks, MaxDoubleHand), u \in DealerSamples}

InitDouble ==
  /\ deck = initializeDeck
  /\ playerCards = <<>>
  /\ dealerUpCard = ""
  /\ dealerDownCard = ""
  /\ bankroll = Dollars(1000)
  /\ currentBet = 10
  /\ gamePhase = "betting"
  /\ gameHistoryLen = 0
  /\ call \in DoubleCalls
  /\ ret = Pending

EstimateDouble ==
  /\ call.op = "calculateProbabilities" /\ ret = Pending
  /\ ret' = Returned(calculateProbabilitiesDouble(call.playerCards, call.dealerUpCard, call.deck))
  /\ UNCHANGED <<uiVars, call>>

NextDouble == EstimateDouble

SpecDouble == InitDouble /\ [][NextDouble]_vars

----------------------------------------------------------------------------
(* Normalisation of the estimate, checked under SpecDouble *)

\* winProb + lossProb + pushProb as JavaScript evaluates it
SumOfProbs(probs) == FAdd(FAdd(probs.winProb, probs.lossProb), probs.pushProb)

\* 2^-52, the gap between 1 and the next double
Epsilon == ShiftLeftBits(<<1>>, FracLimbs * LimbBits - 52)

LiveBranch(cards, d) ==
  /\ totalRemaining(d) > 0
  /\ ~evaluateHand(cards).isBust
  /\ ~evaluateHand(cards).isBlackjack

\* C12 as stated: in every branch of the estimator the returned
\* winProb + lossProb + pushProb equals exactly 1.
C12_SumExactlyOne ==
  Done("calculateProbabilities") => SumOfProbs(ret.value) = FInt(1)

\* C12, amended: in the empty-shoe, bust and natural-blackjack branches the
\* sum equals exactly 1; in the live tiers it equals 1 up to the rounding of
\* doubles, differing from 1 by at most 2^-52.
C12_SumOneUpToRounding ==
  Done("calculateProbabilities") =>
    IF LiveBranch(call.playerCards, call.deck)
    THEN BigCmp(FSub(SumOfProbs(ret.value), FInt(1)).mag, Epsilon) <= 0
    ELSE SumOfProbs(ret.value) = FInt(1)

\* a six against a six with 310 cards left: the sum is 0.9999999999999999
C12_Witness ==
  /\ Done("calculateProbabilities")
  /\ call.playerCards = <<"6">>
  /\ call.dealerUpCard = "6"
  /\ totalRemaining(call.deck) = 310
  /\ FLess(SumOfProbs(ret.value), FInt(1))

====
